---- MODULE Spec2Model ----
(***************************************************************************)
(* Model of the Kirby service-center scraper, scrape_kirby.py main():      *)
(* the location loop, the cookie-popup cascade, the search form, the poll  *)
(* loop, the listing extraction into the unique_stores dict, the           *)
(* intermediate saves and the final save.                                  *)
(*                                                                         *)
(* Text is a sequence of tokens (a token stands for a word, a separator or *)
(* a blank), so that strip, replace, split and "in" are computed, not      *)
(* assumed.  The browser is the environment: every call on it either       *)
(* returns or raises, and every read of driver.page_source returns the     *)
(* page as it is rendered at that moment.                                  *)
(***************************************************************************)
EXTENDS Integers, Sequences, FiniteSets, TLC

\* ------------------------------------------------------------------ bounds
\* Largest number of configured locations of a run.
MaxLocations == 11

\* Largest number of configured locations of a run checked for termination.
TermLocations == 2

\* Number of configured locations of the long run (two intermediate saves).
LongLocations == 21

\* Largest number of configured locations of a run whose queries are followed
\* statement by statement.
QueryLocations == 2

\* Largest number of start_campaign requests of a session of the web
\* application.
MaxStarts == 2

\* Largest number of contacts of an uploaded CSV file.
MaxContacts == 1

\* Largest number of stop_campaign requests of a session.
MaxStops == 1

\* ------------------------------------------------------- program constants
max_attempts == 5
CheckpointEvery == 10
\* app.py lines 136-137: the log buffer keeps the last 50 messages
LogLimit == 50
\* app.py lines 155, 241: a campaign on a file without contacts logs 2 messages;
\* the messages of 24 such campaigns
EarlierLogs == 48

\* -------------------------------------------------------------------- text
WS == " "

RECURSIVE LStrip(_)
LStrip(s) == IF s # <<>> /\ Head(s) = WS THEN LStrip(Tail(s)) ELSE s

RECURSIVE RStrip(_)
RStrip(s) ==
    IF s # <<>> /\ s[Len(s)] = WS THEN RStrip(SubSeq(s, 1, Len(s) - 1)) ELSE s

\* str.strip()
Strip(s) == RStrip(LStrip(s))

\* sub occurs in s at position i
OccursAt(s, sub, i) ==
    /\ i + Len(sub) - 1 <= Len(s)
    /\ SubSeq(s, i, i + Len(sub) - 1) = sub

\* "sub in s"
Contains(s, sub) == \E i \in 1..(Len(s) + 1) : OccursAt(s, sub, i)

\* s.replace(old, ""), old non-empty: every occurrence, left to right
RECURSIVE Remove(_, _)
Remove(s, old) ==
    IF s = <<>> THEN <<>>
    ELSE IF OccursAt(s, old, 1)
         THEN Remove(SubSeq(s, Len(old) + 1, Len(s)), old)
         ELSE <<Head(s)>> \o Remove(Tail(s), old)

\* s.split(sep)[0]: the text before the first occurrence of sep
RECURSIVE BeforeFirst(_, _)
BeforeFirst(s, sep) ==
    IF s = <<>> \/ OccursAt(s, sep, 1) THEN <<>>
    ELSE <<Head(s)>> \o BeforeFirst(Tail(s), sep)

\* ------------------------------------------------------------ page elements
\* An element that may be absent, with its text.
NoElem == [present |-> FALSE, text |-> <<>>]
Elem(t) == [present |-> TRUE, text |-> t]

\* element.get_text(strip=True) of an element holding one text node
GetTextStrip(e) == Strip(e.text)

NoAnchor == [present |-> FALSE, has_href |-> FALSE, href |-> <<>>, text |-> <<>>]
Anchor(h) == [present |-> TRUE, has_href |-> TRUE, href |-> h, text |-> <<"Directions">>]
AnchorNoHref == [present |-> TRUE, has_href |-> FALSE, href |-> <<>>, text |-> <<"Directions">>]

NoDirection == [present |-> FALSE, text |-> <<>>, a |-> NoAnchor]
Direction(t, a) == [present |-> TRUE, text |-> t, a |-> a]

NoContact == [present |-> FALSE, spans |-> <<>>]
Contact(ss) == [present |-> TRUE, spans |-> ss]

Span(c, t) == [cls |-> c, text |-> t]

\* A <li> of the result list.  has_id: the data-store-id attribute is there;
\* spans: the sibling <span>s of the address paragraph, in document order.
Li(has, sid, strong, spans, contact, direction) ==
    [has_id |-> has, sid |-> sid, strong |-> strong, spans |-> spans,
     contact |-> contact, direction |-> direction]

\* ------------------------------------------------------------- page parser
\* store.find("span", class_=c): index of the first span of that class, 0 if none
RECURSIVE FirstSpanFrom(_, _, _)
FirstSpanFrom(spans, c, i) ==
    IF i > Len(spans) THEN 0
    ELSE IF spans[i].cls = c THEN i
    ELSE FirstSpanFrom(spans, c, i + 1)

FirstSpan(spans, c) == FirstSpanFrom(spans, c, 1)

\* line 163
ParseName(li) == IF li.strong.present THEN GetTextStrip(li.strong) ELSE <<>>

\* line 164
ParseStreet(li) ==
    LET i == FirstSpan(li.spans, "wpsl-street")
    IN IF i # 0 THEN Strip(li.spans[i].text) ELSE <<>>

\* lines 165-170: the next sibling <span> of the street span, whatever its class
ParseCityStateZip(li) ==
    LET i == FirstSpan(li.spans, "wpsl-street")
    IN IF i # 0 /\ i + 1 <= Len(li.spans) THEN Strip(li.spans[i + 1].text) ELSE <<>>

\* line 171
ParseCountry(li) ==
    LET i == FirstSpan(li.spans, "wpsl-country")
    IN IF i # 0 THEN Strip(li.spans[i].text) ELSE <<>>

\* lines 173-180: the last span holding the label decides the field
RECURSIVE ScanContact(_, _, _)
ScanContact(spans, label, acc) ==
    IF spans = <<>> THEN acc
    ELSE LET t == Head(spans)
             v == IF Contains(t, <<label>>)
                  THEN Strip(Remove(Strip(t), <<label, ":">>))
                  ELSE acc
         IN ScanContact(Tail(spans), label, v)

ParsePhone(li) ==
    IF li.contact.present THEN ScanContact(li.contact.spans, "Phone", <<>>) ELSE <<>>

ParseEmail(li) ==
    IF li.contact.present THEN ScanContact(li.contact.spans, "Email", <<>>) ELSE <<>>

\* direction_wrap.get_text(strip=True): the stripped text nodes, joined
DirectionText(d) ==
    Strip(d.text) \o (IF d.a.present THEN Strip(d.a.text) ELSE <<>>)

\* line 185
ParseDistance(li) ==
    IF li.direction.present
    THEN Strip(BeforeFirst(DirectionText(li.direction), <<"Directions">>))
    ELSE <<>>

\* lines 186-188, when a_tag["href"] does not raise
ParseLink(li) ==
    IF li.direction.present /\ li.direction.a.present THEN li.direction.a.href ELSE <<>>

\* line 188: a_tag["href"] raises KeyError on an anchor without the attribute
ParseRaises(li) ==
    li.direction.present /\ li.direction.a.present /\ ~li.direction.a.has_href

\* line 189: the row stored for a listing
ParseRow(li) ==
    <<ParseName(li), ParseStreet(li), ParseCityStateZip(li), ParseCountry(li),
      ParsePhone(li), ParseEmail(li), ParseDistance(li), ParseLink(li)>>

FindAllStores_all(page) == page

\* lines 138-139, 156-157: soup.find_all("li", attrs={"data-store-id": True})
FindAllStores(page) == SelectSeq(page, LAMBDA li : li.has_id)

\* ------------------------------------------------------------ record store
\* unique_stores is a Python dict: a sequence of entries in insertion order.
Entry(k, v) == [key |-> k, row |-> v]

Keys(d) == {d[i].key : i \in 1..Len(d)}

HasKey_never(d, k) == FALSE

\* line 161: store_id in unique_stores
HasKey(d, k) == k \in Keys(d)

\* dict[k]
Get(d, k) == LET i == CHOOSE j \in 1..Len(d) : d[j].key = k IN d[i].row

DictSet_front(d, k, v) == <<Entry(k, v)>> \o d

\* line 189: dict.__setitem__: replaces the value of a key in place, appends a new key
DictSet(d, k, v) ==
    IF \E i \in 1..Len(d) : d[i].key = k
    THEN [i \in 1..Len(d) |-> IF d[i].key = k THEN Entry(k, v) ELSE d[i]]
    ELSE Append(d, Entry(k, v))

MergeListing_append(d, li) == Append(d, Entry(li.sid, ParseRow(li)))

\* lines 160-189 for one listing that does not raise
MergeListing(d, li) ==
    IF HasKey(d, li.sid) THEN d ELSE DictSet(d, li.sid, ParseRow(li))

\* line 161-162 and 188: the listing raises only if it is not skipped as known
ListingRaises(d, li) == ~HasKey(d, li.sid) /\ ParseRaises(li)

\* ------------------------------------------------------------------- files
HeaderRow == <<"Name", "Street", "City/State/Zip", "Country", "Phone", "Email",
               "Distance", "Directions Link">>

\* lines 199-204, 210-215: header row, then one row per value of the dict
CsvRows(d) == <<HeaderRow>> \o [i \in 1..Len(d) |-> d[i].row]

config_name == "major_cities"

IntermediateFile_nocount(k) == <<"kirby_service_centers", config_name, "intermediate", 0>>

IntermediateFile_final(k) == <<"kirby_service_centers", config_name, "final", 0>>

\* line 197
IntermediateFile(k) == <<"kirby_service_centers", config_name, "intermediate", k>>

\* line 208
FinalFile == <<"kirby_service_centers", config_name, "final", 0>>

FileNames == {IntermediateFile(k) : k \in 1..MaxLocations} \cup {FinalFile}

WriteFile_append(old, rows) == old \o rows

\* lines 198, 209: open(filename, "w") truncates, then the rows are written
WriteFile(old, rows) == rows

\* the rows of the file of that name on a disk, <<>> when there is none
FileAt(disk, name) == IF name \in DOMAIN disk THEN disk[name] ELSE <<>>

SaveStore_keep(disk, name, d) ==
    IF name \in DOMAIN disk THEN disk
    ELSE [f \in DOMAIN disk \cup {name} |-> IF f = name THEN CsvRows(d) ELSE disk[f]]

\* lines 198-204, 209-215: the disk after the with-block has written the store
SaveStore(disk, name, d) ==
    [f \in DOMAIN disk \cup {name} |->
        IF f = name THEN WriteFile(FileAt(disk, name), CsvRows(d)) ELSE disk[f]]

\* ------------------------------------------------------- the site's pages
Address(street, city) ==
    <<Span("wpsl-street", <<street>>), Span("", <<city>>), Span("wpsl-country", <<"US">>)>>

Listing1 ==
    Li(TRUE, "1", Elem(<<"Shop", WS, "One">>), Address("1 Main", "Town A"),
       Contact(<< <<"Phone", ":", WS, "555-1">>, <<"Email", ":", WS, "one@x">> >>),
       Direction(<<"3 mi">>, Anchor(<<"url1">>)))

Listing2A ==
    Li(TRUE, "2", Elem(<<"Shop", WS, "Two">>), Address("2 Main", "Town A"),
       Contact(<< <<"Phone", ":", WS, "555-2A">>, <<"Email", ":", WS, "two@x">> >>),
       Direction(<<"7 mi">>, Anchor(<<"url2">>)))

\* the same store as seen from Town B: another phone, fewer sub-elements
Listing2B ==
    Li(TRUE, "2", Elem(<<"Shop", WS, "Two">>), <<>>,
       Contact(<< <<"Phone", ":", WS, "555-2B">> >>), NoDirection)

Listing3 ==
    Li(TRUE, "3", Elem(<<"Shop", WS, "Three">>), Address("3 Main", "Town B"),
       NoContact, Direction(<<"9 mi">>, Anchor(<<"url3">>)))

\* a listing whose directions anchor has no href
Listing4 ==
    Li(TRUE, "4", NoElem, <<>>, NoContact, Direction(<<"1 mi">>, AnchorNoHref))

\* a <li> without the data-store-id attribute (store.get would give None)
ListingNoId ==
    Li(FALSE, "None", Elem(<<"Header">>), <<>>, NoContact, NoDirection)

EmptyPage == <<>>
TownA == <<Listing1, Listing2A>>
TownB == <<Listing2B, Listing3>>
TownC == <<Listing3, Listing4>>
NoIdPage == <<ListingNoId>>

\* the sub-elements a listing element can hold
Parts == {"title", "street", "city", "country", "contact", "phone", "email",
          "directions", "anchor", "href"}

\* the listing element that holds the sub-elements of S and no others; a span
\* of the contact block needs the block, the anchor needs the directions block,
\* the anchor's target needs the anchor
FragmentLi(has, S) ==
    Li(has, IF has THEN "9" ELSE "None",
       IF "title" \in S THEN Elem(<<WS, "Shop", WS, "Nine", WS>>) ELSE NoElem,
       (IF "street" \in S THEN <<Span("wpsl-street", <<"9 Main", WS>>)>> ELSE <<>>)
          \o (IF "city" \in S THEN <<Span("", <<"Town Z">>)>> ELSE <<>>)
          \o (IF "country" \in S THEN <<Span("wpsl-country", <<"US">>)>> ELSE <<>>),
       IF "contact" \in S
       THEN Contact((IF "phone" \in S THEN << <<"Phone", ":", WS, "555-9">> >> ELSE <<>>)
                    \o (IF "email" \in S THEN << <<"Email", ":", WS, "nine@x">> >> ELSE <<>>))
       ELSE NoContact,
       IF "directions" \in S
       THEN Direction(<<"5 mi", WS>>,
                      IF "anchor" \in S
                      THEN (IF "href" \in S THEN Anchor(<<"url9">>) ELSE AnchorNoHref)
                      ELSE NoAnchor)
       ELSE NoDirection)

\* a listing element whose data-store-id attribute is there and empty
ListingEmptyId ==
    Li(TRUE, "", Elem(<<"Shop", WS, "Zero">>), Address("0 Main", "Town Z"),
       NoContact, NoDirection)

\* listings whose contact block has a line that holds the word Phone but does
\* not begin with the label "Phone:"
ListingCellPhone ==
    Li(TRUE, "7", Elem(<<"Shop", WS, "Seven">>), <<>>,
       Contact(<< <<"Cell", WS, "Phone", ":", WS, "555-7">> >>), NoDirection)

ListingPhoneNoColon ==
    Li(TRUE, "8", Elem(<<"Shop", WS, "Eight">>), <<>>,
       Contact(<< <<"Phone", WS, "555-8">>, <<"Email", ":", WS, "eight@x">> >>),
       NoDirection)

\* pages of one listing element, with and without the data-store-id attribute,
\* pages where an element without the attribute stands before one with it,
\* pages with an element whose attribute is empty, and pages with unusual
\* contact lines
FragmentPages ==
    {<<FragmentLi(has, S)>> : has \in BOOLEAN, S \in SUBSET Parts}
        \cup {<<FragmentLi(FALSE, S), Listing1>> : S \in {{}, Parts}}
        \cup {<<ListingEmptyId>>, <<Listing1, ListingEmptyId>>}
        \cup {<<ListingCellPhone>>, <<ListingPhoneNoColon>>}

\* driver.page_source, as the widget may have rendered it at the time of a read
Pages == {EmptyPage, TownA, TownB, TownC, NoIdPage}

\* a live site renders any of its pages at any read; a fixed site renders one
\* and the same page at every read
LiveSite == [fixed |-> FALSE, page |-> <<>>]
FixedSite(page) == [fixed |-> TRUE, page |-> page]

\* lines 138, 156: the values driver.page_source can have
PageSource(s) == IF s.fixed THEN {s.page} ELSE Pages

\* ------------------------------------------------------------------- state
VARIABLES
    pc,             \* position in main()
    site,           \* how the site renders its result list during this run
    progress,       \* the last progress line printed on the console
    total_searches, \* len(config['locations'])
    current_search, \* 1-based index of the location being processed
    driver,         \* browser session: "none", "open", "quit"
    unique_stores,  \* the Record Store
    popup_closed,
    controls,       \* what became of the radius and the max-results control in
                    \* the query being configured: "unset", "applied" (the widget
                    \* shows the value), "rejected" (the widget silently kept its
                    \* own value) or "warned" (the step raised, a warning was
                    \* printed)
    attempt,        \* the poll loop's variable, 0-based
    stores,         \* the result of the last find_all
    idx,            \* position of the extraction loop in stores
    files,          \* the files on disk: name -> rows
    failStage,      \* history: where the last exception was raised, "none" once
                    \*          the next location has been navigated to
    before,         \* history: unique_stores when this location began
    found,          \* history: the listings the poll loop stopped on
    polls,          \* history: poll attempts made for this location
    nudges,         \* history: re-activations of the search control
    config,         \* get_config(config_name): the number of locations, the
                    \* radius and the max-results value of the run
    acts,           \* history: the assignments and change events the query has
                    \*          made on its two controls, in the order made
    tried,          \* history: the strategies the obstruction handler has run
                    \*          for this location, each with its outcome
    expected,       \* history: first-seen merge of the pages of the locations
                    \*          that ended without failure
    campaign_status,\* app.py: the global dict shared by the request handlers
                    \*         and the campaign workers
    threads,        \* app.py: the campaign workers, one per accepted start
                    \*         request: position, locals
    requests,       \* app.py: position of each start_campaign request handler
    sender_password,\* app.py: whether GMAIL_APP_PASSWORD is set
    stops,          \* app.py: stop_campaign requests served
    logged          \* history: number of messages appended to the log buffer

vars == <<pc, site, progress, total_searches, current_search, driver, unique_stores, popup_closed,
          controls, attempt, stores, idx, files, failStage, before, found,
          polls, nudges, tried, expected, acts, config,
          campaign_status, threads, requests, sender_password, stops, logged>>

\* the state of the web application of app.py
app == <<campaign_status, threads, requests, sender_password, stops, logged>>

\* what the run of main() leaves alone
aside == <<config, acts, app>>

\* the state of main(), which the web application leaves alone
scraper == <<pc, site, progress, total_searches, current_search, driver, unique_stores,
             popup_closed, controls, attempt, stores, idx, files, failStage, before,
             found, polls, nudges, tried, expected, acts, config>>

\* what the campaign workers leave alone
web == <<scraper, requests, sender_password, stops>>

\* groups of variables that most steps leave alone
run == <<aside, site, progress, total_searches, current_search, driver, files>>
poll == <<attempt, stores, idx>>
form == <<tried, controls>>
history == <<before, found, polls, nudges, expected>>


\* the state at line 35, for a configuration with one of the given numbers of
\* locations and a working directory holding the given files
\* ------------------------------------------------------------ config.py
\* a configuration: the number of its locations, its radius, its max results
Config(n, radius, results) ==
    [locations |-> n, search_radius |-> radius, max_results |-> results]

\* config.py lines 6-22
MAJOR_CITIES_CONFIG == Config(10, "50", "25")

\* config.py lines 25-81
TOP_50_CITIES_CONFIG == Config(50, "75", "50")

\* config.py lines 84-140
ALL_50_STATES_CONFIG == Config(50, "100", "50")

\* config.py lines 143-159
ALL_STATES_CONFIG == Config(48, "100", "50")

\* config.py lines 162-178
ROBOTICS_HUBS_CONFIG == Config(10, "75", "75")

\* config.py lines 181-191
HIGH_POPULATION_CONFIG == Config(20, "200", "100")

\* config.py lines 194-205
CUSTOM_CONFIG == Config(4, "50", "25")

\* config.py lines 208-216: the keys of the dict
SEARCH_RADIUS_OPTIONS == {"10", "25", "50", "75", "100", "200", "500"}

\* config.py lines 219-224: the keys of the dict
MAX_RESULTS_OPTIONS == {"25", "50", "75", "100"}

DEFAULT_CONFIG_other == Config(10, "30", "20")

\* config.py line 227
DEFAULT_CONFIG == MAJOR_CITIES_CONFIG

\* config.py lines 232-240
configs ==
    [n \in {"major_cities", "top_50_cities", "all_50_states", "all_states",
            "robotics_hubs", "high_population", "custom"} |->
        CASE n = "major_cities" -> MAJOR_CITIES_CONFIG
          [] n = "top_50_cities" -> TOP_50_CITIES_CONFIG
          [] n = "all_50_states" -> ALL_50_STATES_CONFIG
          [] n = "all_states" -> ALL_STATES_CONFIG
          [] n = "robotics_hubs" -> ROBOTICS_HUBS_CONFIG
          [] n = "high_population" -> HIGH_POPULATION_CONFIG
          [] n = "custom" -> CUSTOM_CONFIG]

\* config.py line 241: configs.get(config_name, DEFAULT_CONFIG)
get_config(name) == IF name \in DOMAIN configs THEN configs[name] ELSE DEFAULT_CONFIG

\* sys.argv[1:]: no argument, the name of a configuration, or another word
Argvs == {<<>>} \cup {<<n>> : n \in DOMAIN configs \cup {"nope", ""}}

\* no configuration has been read
NoConfig == Config(0, "", "")

\* line 54: the progress line holds the index, the total and the location (the
\* k-th of the list), and no count of records
ProgressLine(k, total) == [index |-> k, total |-> total, location |-> k]

\* no progress line has been printed
NoProgress == [index |-> 0, total |-> 0, location |-> 0]

\* app.py lines 39-47: the campaign state when the module is loaded (the
\* fields current_email and progress, which no step reads, are left out)
NoCampaign == [running |-> FALSE, total |-> 0, sent |-> 0, failed |-> 0, logs |-> <<>>]

\* a worker that has not been created: its position, the locals contacts, i
\* and the slice of line 137, whether the templates format, where the
\* log_message call in progress returns to; history: whether a stop request
\* was served after its start request returned, and the contacts that the test
\* of line 174 has let through after that
NoThread == [pc |-> "none", contacts |-> 0, i |-> 0, template_ok |-> TRUE,
             then |-> "none", tmp |-> <<>>, stopSeen |-> FALSE, late |-> 0]

Starts == 1..MaxStarts

\* the web application serves no request
AppIdle ==
    /\ campaign_status = NoCampaign
    /\ threads = [w \in Starts |-> NoThread]
    /\ requests = [r \in Starts |-> "idle"]
    /\ sender_password = FALSE
    /\ stops = 0
    /\ logged = 0

InitWith(location_counts, disk) ==
    /\ AppIdle
    /\ pc = "start"
    /\ site = LiveSite
    /\ acts = <<>>
    /\ progress = NoProgress
    /\ total_searches \in location_counts
    /\ config = [get_config(config_name) EXCEPT !.locations = total_searches]
    /\ current_search = 0
    /\ driver = "none"
    /\ unique_stores = <<>>
    /\ popup_closed = FALSE
    /\ controls = [radius |-> "unset", results |-> "unset"]
    /\ attempt = 0
    /\ stores = <<>>
    /\ idx = 1
    /\ files = disk
    /\ failStage = "none"
    /\ before = <<>>
    /\ found = <<>>
    /\ polls = 0
    /\ nudges = 0
    /\ tried = <<>>
    /\ expected = <<>>

NoFiles == [f \in {} |-> <<>>]

\* the files an earlier run of one checkpoint interval has left
StaleRow == <<<<"old">>, <<"old">>, <<"old">>, <<"old">>, <<"old">>, <<"old">>,
              <<"old">>, <<"old">>>>
StaleFile == <<HeaderRow, StaleRow, StaleRow, StaleRow, StaleRow, StaleRow, StaleRow>>
StaleFiles == [f \in {IntermediateFile(CheckpointEvery), FinalFile} |-> StaleFile]

Init == InitWith(1..MaxLocations, NoFiles)

\* a long run in an empty directory
InitLong == InitWith({LongLocations}, NoFiles)

\* a run of one checkpoint interval in the directory of an earlier run
InitRerun == InitWith({CheckpointEvery}, StaleFiles)

\* first-seen merge of a parsed page, as the Record Store contract states it
RECURSIVE FirstSeenMerge(_, _)
FirstSeenMerge(d, lis) ==
    IF lis = <<>> THEN d
    ELSE LET li == Head(lis)
         IN FirstSeenMerge(IF li.sid \in Keys(d) THEN d
                           ELSE Append(d, Entry(li.sid, ParseRow(li))),
                           Tail(lis))

\* ----------------------------------------------------------------- actions
HandlerTarget_abort == "escaped"

\* lines 191-193: where an exception raised inside the try block lands
HandlerTarget == "except"

\* an exception raised inside the try block of lines 118-190
Caught(stage) ==
    /\ pc' = HandlerTarget
    /\ failStage' = stage

Escapes_continue(stage) ==
    /\ pc' = "for"
    /\ failStage' = stage

\* an exception raised outside every try block leaves main()
Escapes(stage) ==
    /\ pc' = "escaped"
    /\ failStage' = stage

\* lines 36-50: webdriver.Chrome(...) returns a session or raises
CreateSession ==
    /\ pc = "start"
    /\ \/ /\ driver' = "open"
          /\ pc' = "for"
          /\ UNCHANGED failStage
       \/ /\ Escapes("session")
          /\ UNCHANGED driver
    /\ UNCHANGED <<aside, site, progress, total_searches, current_search, files, poll, form, history,
                   unique_stores, popup_closed>>

NextLocation_same(k) == k

\* lines 52-53: the loop takes the next location of the list, and the counter
\* follows it
NextLocation(k) == k + 1

\* lines 52-54: the head of the location loop
ForLocation ==
    /\ pc = "for"
    /\ IF current_search < total_searches
       THEN /\ current_search' = NextLocation(current_search)
            /\ progress' = ProgressLine(current_search', total_searches)
            /\ pc' = "get"
            /\ before' = unique_stores
            /\ found' = <<>>
            /\ polls' = 0
            /\ nudges' = 0
       ELSE /\ pc' = "final_save"
            /\ UNCHANGED <<current_search, progress, before, found, polls, nudges>>
    /\ UNCHANGED <<aside, site, total_searches, driver, files, poll, form, expected,
                   unique_stores, popup_closed, failStage>>

\* lines 55-56: driver.get(url), outside every try block
Navigate ==
    /\ pc = "get"
    /\ \/ pc' = "popup_id" /\ failStage' = "none"
       \/ Escapes("navigation")
    /\ UNCHANGED <<run, poll, form, history, unique_stores, popup_closed>>

\* one run of a strategy of the obstruction handler
Strategy(n, ok) == [n |-> n, ok |-> ok]

ShouldTry_always(closed) == TRUE

\* lines 68, 77, 89: if not popup_closed
ShouldTry(closed) == ~closed

\* lines 59-67: strategy 1, the consent button by id
PopupById ==
    /\ pc = "popup_id"
    /\ \E ok \in BOOLEAN :
          /\ popup_closed' = ok
          /\ tried' = <<Strategy(1, ok)>>
    /\ pc' = "popup_class"
    /\ UNCHANGED <<run, poll, history, controls, unique_stores, failStage>>

\* lines 68-76: strategy 2, by class name, only if strategy 1 did not succeed
PopupByClass ==
    /\ pc = "popup_class"
    /\ IF ShouldTry(popup_closed)
       THEN \E ok \in BOOLEAN :
               /\ popup_closed' = ok
               /\ tried' = Append(tried, Strategy(2, ok))
       ELSE UNCHANGED <<popup_closed, tried>>
    /\ pc' = "popup_text"
    /\ UNCHANGED <<run, poll, history, controls, unique_stores, failStage>>

\* lines 77-88: strategy 3, the first button whose text holds accept or agree;
\* it succeeds when such a button is found and its click returns
PopupByText ==
    /\ pc = "popup_text"
    /\ IF ShouldTry(popup_closed)
       THEN \E ok \in BOOLEAN :
               /\ popup_closed' = ok
               /\ tried' = Append(tried, Strategy(3, ok))
       ELSE UNCHANGED <<popup_closed, tried>>
    /\ pc' = "popup_remove"
    /\ UNCHANGED <<run, poll, history, controls, unique_stores, failStage>>

\* lines 89-95: strategy 4, execute_script outside every try block
PopupRemove ==
    /\ pc = "popup_remove"
    /\ IF ShouldTry(popup_closed)
       THEN \/ /\ pc' = "radius"
               /\ tried' = Append(tried, Strategy(4, TRUE))
               /\ UNCHANGED failStage
            \/ /\ Escapes("obstruction")
               /\ tried' = Append(tried, Strategy(4, FALSE))
       ELSE pc' = "radius" /\ UNCHANGED <<failStage, tried>>
    /\ UNCHANGED <<run, poll, history, controls, unique_stores, popup_closed>>

\* what a select control can become when the script sets its value: the widget
\* takes the value, the widget silently keeps its own, or the step raises
ControlOutcomes == {"applied", "rejected", "warned"}

AfterWarning_abort(next) == "except"

\* lines 104-105, 114-115: the except prints a warning and execution goes on
AfterWarning(next) == next

\* lines 97-105: the radius control; the handler's history ends here
SetRadius ==
    /\ pc = "radius"
    /\ \E o \in ControlOutcomes :
          /\ controls' = [controls EXCEPT !.radius = o]
          /\ pc' = IF o = "warned" THEN AfterWarning("max_results") ELSE "max_results"
    /\ tried' = <<>>
    /\ UNCHANGED <<run, poll, history, unique_stores, popup_closed, failStage>>

\* lines 107-115: the max-results control
SetMaxResults ==
    /\ pc = "max_results"
    /\ \E o \in ControlOutcomes :
          /\ controls' = [controls EXCEPT !.results = o]
          /\ pc' = IF o = "warned" THEN AfterWarning("search_input") ELSE "search_input"
    /\ UNCHANGED <<run, poll, history, tried, unique_stores, popup_closed, failStage>>

\* no control has been touched; the record of the two controls is cleared when
\* the search control is clicked or the location is abandoned
NoControls == [radius |-> "unset", results |-> "unset"]

\* lines 118-121: wait for the location input, clear it, type the location
EnterLocation ==
    /\ pc = "search_input"
    /\ \/ pc' = "search_btn" /\ UNCHANGED <<failStage, controls>>
       \/ Caught("search_input") /\ controls' = NoControls
    /\ UNCHANGED <<run, poll, history, tried, unique_stores, popup_closed>>

\* line 124: wait for the search control to be clickable
FindSearchBtn ==
    /\ pc = "search_btn"
    /\ \/ pc' = "click" /\ UNCHANGED <<failStage, controls>>
       \/ Caught("search_btn") /\ controls' = NoControls
    /\ UNCHANGED <<run, poll, history, tried, unique_stores, popup_closed>>

ClickFallback_none == "except"

ClickFallback_skip == "parse_results"

\* lines 127-129: where an exception of search_btn.click() lands
ClickFallback == "js_click"

\* lines 125-126, then 132-137 when the click returns
ClickSearch ==
    /\ pc = "click"
    /\ \/ pc' = "poll" /\ attempt' = 0
       \/ pc' = ClickFallback /\ UNCHANGED attempt
    /\ controls' = NoControls
    /\ UNCHANGED <<run, stores, idx, history, tried, unique_stores,
                   popup_closed, failStage>>

\* lines 127-129, then 132-137 when the script returns
JsClick ==
    /\ pc = "js_click"
    /\ \/ pc' = "poll" /\ attempt' = 0 /\ UNCHANGED failStage
       \/ Caught("js_click") /\ UNCHANGED attempt
    /\ UNCHANGED <<run, stores, idx, form, history, unique_stores,
                   popup_closed>>

NudgeAllowed_always(a) == TRUE

\* line 148
NudgeAllowed(a) == a < max_attempts - 1

\* lines 137-146: one poll attempt
PollParse ==
    /\ pc = "poll"
    /\ \/ \E page \in PageSource(site) :
             /\ stores' = FindAllStores(page)
             /\ polls' = polls + 1
             /\ IF stores' # <<>>
                THEN found' = stores' /\ pc' = "parse_results"
                ELSE UNCHANGED found /\ pc' = "nudge"
             /\ UNCHANGED failStage
       \/ /\ Caught("poll_page_source")
          /\ UNCHANGED <<stores, polls, found>>
    /\ UNCHANGED <<run, attempt, idx, before, nudges, form, expected,
                   unique_stores, popup_closed>>

AfterNudge_raise(ok) == IF ok THEN "poll" ELSE "except"

\* lines 149-153: the nudge returns (ok) or raises, and a raise is passed over
AfterNudge(ok) == "poll"

\* lines 146-153 and the loop head of line 137: after an attempt that found
\* nothing, sleep, nudge the search control unless this was the last attempt,
\* and go on to the next attempt if one is left
PollNudge ==
    /\ pc = "nudge"
    /\ IF NudgeAllowed(attempt)
       THEN /\ nudges' = nudges + 1
            /\ \E ok \in BOOLEAN :
                  pc' = IF AfterNudge(ok) # "poll" THEN AfterNudge(ok)
                        ELSE IF attempt + 1 < max_attempts THEN "poll"
                        ELSE "parse_results"
       ELSE /\ UNCHANGED nudges
            /\ pc' = IF attempt + 1 < max_attempts THEN "poll" ELSE "parse_results"
    /\ attempt' = IF pc' = "poll" THEN attempt + 1 ELSE attempt
    /\ UNCHANGED <<run, stores, idx, form, before, found, polls, expected,
                   unique_stores, popup_closed, failStage>>

\* lines 155-157: the page is read and parsed again after the loop
ParseResults ==
    /\ pc = "parse_results"
    /\ \/ \E page \in PageSource(site) :
             /\ stores' = FindAllStores(page)
             /\ idx' = 1
             /\ pc' = "extract"
             /\ UNCHANGED failStage
       \/ /\ Caught("page_source")
          /\ UNCHANGED <<stores, idx>>
    /\ UNCHANGED <<run, attempt, form, history, unique_stores, popup_closed>>

\* lines 159-189: one iteration of the extraction loop
ExtractStore ==
    /\ pc = "extract"
    /\ idx <= Len(stores)
    /\ IF ListingRaises(unique_stores, stores[idx])
       THEN /\ Caught("extraction")
            /\ UNCHANGED <<unique_stores, idx>>
       ELSE /\ unique_stores' = MergeListing(unique_stores, stores[idx])
            /\ idx' = idx + 1
            /\ UNCHANGED <<pc, failStage>>
    /\ UNCHANGED <<run, attempt, stores, form, history, popup_closed>>

\* line 159 when the listings are exhausted: the try block ends without exception
ExtractDone ==
    /\ pc = "extract"
    /\ idx > Len(stores)
    /\ pc' = "checkpoint"
    /\ expected' = FirstSeenMerge(expected, stores)
    /\ UNCHANGED <<run, poll, form, before, found, polls, nudges, unique_stores,
                   popup_closed, failStage>>

\* lines 191-193: print the error and continue with the next location
ExceptContinue ==
    /\ pc = "except"
    /\ pc' = "for"
    /\ UNCHANGED <<run, poll, form, history, unique_stores, popup_closed, failStage>>

\* line 196
CheckpointDue(k) == k % CheckpointEvery = 0

\* lines 195-205: the intermediate save
Checkpoint ==
    /\ pc = "checkpoint"
    /\ IF CheckpointDue(current_search)
       THEN files' = SaveStore(files, IntermediateFile(current_search),
                                unique_stores)
       ELSE UNCHANGED files
    /\ pc' = "for"
    /\ UNCHANGED <<aside, site, progress, total_searches, current_search, driver, poll, form, history,
                   unique_stores, popup_closed, failStage>>

\* lines 207-215: the final save
FinalSave ==
    /\ pc = "final_save"
    /\ files' = SaveStore(files, FinalFile, unique_stores)
    /\ pc' = "quit"
    /\ UNCHANGED <<aside, site, progress, total_searches, current_search, driver, poll, form, history,
                   unique_stores, popup_closed, failStage>>

\* lines 217-218
Quit ==
    /\ pc = "quit"
    /\ driver' = "quit"
    /\ pc' = "done"
    /\ UNCHANGED <<aside, site, progress, total_searches, current_search, files, poll, form, history,
                   unique_stores, popup_closed, failStage>>

Next ==
    \/ CreateSession
    \/ ForLocation
    \/ Navigate
    \/ PopupById
    \/ PopupByClass
    \/ PopupByText
    \/ PopupRemove
    \/ SetRadius
    \/ SetMaxResults
    \/ EnterLocation
    \/ FindSearchBtn
    \/ ClickSearch
    \/ JsClick
    \/ PollParse
    \/ PollNudge
    \/ ParseResults
    \/ ExtractStore
    \/ ExtractDone
    \/ ExceptContinue
    \/ Checkpoint
    \/ FinalSave
    \/ Quit

Spec == Init /\ [][Next]_vars

SpecLong == InitLong /\ [][Next]_vars

SpecRerun == InitRerun /\ [][Next]_vars

StepAfter_click(p) == "click"

\* lines 99-121: the statement that follows in the text of main()
StepAfter(p) ==
    CASE p = "radius" -> "radius_change"
      [] p = "radius_change" -> "max_results"
      [] p = "max_results" -> "max_results_change"
      [] p = "max_results_change" -> "search_input"

\* lines 98-100, 104-105: find the radius control and assign the value
AssignRadius ==
    /\ pc = "radius"
    /\ \/ /\ acts' = <<"radius_value">>
          /\ pc' = StepAfter(pc)
          /\ UNCHANGED controls
       \/ /\ acts' = <<>>
          /\ controls' = [controls EXCEPT !.radius = "warned"]
          /\ pc' = AfterWarning("max_results")
    /\ tried' = <<>>
    /\ UNCHANGED <<config, app, site, progress, total_searches, current_search,
                   driver, files, poll, history, unique_stores, popup_closed, failStage>>

\* lines 101-105: dispatch the change event on the radius control
NotifyRadius ==
    /\ pc = "radius_change"
    /\ \/ /\ acts' = Append(acts, "radius_change")
          /\ \E o \in ControlOutcomes \ {"warned"} :
                controls' = [controls EXCEPT !.radius = o]
          /\ pc' = StepAfter(pc)
       \/ /\ controls' = [controls EXCEPT !.radius = "warned"]
          /\ pc' = AfterWarning("max_results")
          /\ UNCHANGED acts
    /\ UNCHANGED <<config, app, site, progress, total_searches, current_search,
                   driver, files, poll, history, tried, unique_stores, popup_closed, failStage>>

\* lines 108-110, 114-115: find the max-results control and assign the value
AssignResults ==
    /\ pc = "max_results"
    /\ \/ /\ acts' = Append(acts, "results_value")
          /\ pc' = StepAfter(pc)
          /\ UNCHANGED controls
       \/ /\ controls' = [controls EXCEPT !.results = "warned"]
          /\ pc' = AfterWarning("search_input")
          /\ UNCHANGED acts
    /\ UNCHANGED <<config, app, site, progress, total_searches, current_search,
                   driver, files, poll, history, tried, unique_stores, popup_closed, failStage>>

\* lines 111-115: dispatch the change event on the max-results control
NotifyResults ==
    /\ pc = "max_results_change"
    /\ \/ /\ acts' = Append(acts, "results_change")
          /\ \E o \in ControlOutcomes \ {"warned"} :
                controls' = [controls EXCEPT !.results = o]
          /\ pc' = StepAfter(pc)
       \/ /\ controls' = [controls EXCEPT !.results = "warned"]
          /\ pc' = AfterWarning("search_input")
          /\ UNCHANGED acts
    /\ UNCHANGED <<config, app, site, progress, total_searches, current_search,
                   driver, files, poll, history, tried, unique_stores, popup_closed, failStage>>

\* lines 17-28, 49: the configuration is chosen by the first argument, the
\* default name when there is none
LoadConfig ==
    /\ pc = "argv"
    /\ \E argv \in Argvs :
          LET name == IF Len(argv) > 0 THEN argv[1] ELSE "major_cities"
          IN /\ config' = get_config(name)
             /\ total_searches' = config'.locations
    /\ pc' = "start"
    /\ UNCHANGED <<acts, app, site, progress, current_search, driver, files, poll, form,
                   history, unique_stores, popup_closed, failStage>>

\* before main() has read its arguments
ScraperIdle ==
    /\ pc = "argv"
    /\ site = LiveSite
    /\ acts = <<>>
    /\ config = NoConfig
    /\ progress = NoProgress
    /\ total_searches = 0
    /\ current_search = 0
    /\ driver = "none"
    /\ unique_stores = <<>>
    /\ popup_closed = FALSE
    /\ controls = NoControls
    /\ attempt = 0
    /\ stores = <<>>
    /\ idx = 1
    /\ files = NoFiles
    /\ failStage = "none"
    /\ before = <<>>
    /\ found = <<>>
    /\ polls = 0
    /\ nudges = 0
    /\ tried = <<>>
    /\ expected = <<>>

InitConfig == AppIdle /\ ScraperIdle

\* lines 17-115 for the first location: up to the query built from the
\* configuration
NextConfig ==
    \/ LoadConfig
    \/ CreateSession
    \/ ForLocation
    \/ Navigate
    \/ PopupById
    \/ PopupByClass
    \/ PopupByText
    \/ PopupRemove
    \/ SetRadius
    \/ SetMaxResults

SpecConfig == InitConfig /\ [][NextConfig]_vars

\* main() with the two control blocks taken statement by statement
NextQuery ==
    \/ CreateSession
    \/ ForLocation
    \/ Navigate
    \/ PopupById
    \/ PopupByClass
    \/ PopupByText
    \/ PopupRemove
    \/ AssignRadius
    \/ NotifyRadius
    \/ AssignResults
    \/ NotifyResults
    \/ EnterLocation
    \/ FindSearchBtn
    \/ ClickSearch
    \/ JsClick
    \/ PollParse
    \/ PollNudge
    \/ ParseResults
    \/ ExtractStore
    \/ ExtractDone
    \/ ExceptContinue
    \/ Checkpoint
    \/ FinalSave
    \/ Quit

InitQuery == InitWith(1..QueryLocations, NoFiles)

SpecQuery == InitQuery /\ [][NextQuery]_vars

\* short runs in which every browser call and every wait returns or raises in
\* finite time, so that main() always takes its next step
InitTerm == InitWith(1..TermLocations, NoFiles)

SpecTerm == InitTerm /\ [][Next]_vars /\ WF_vars(Next)

\* the search of the first of two locations has been submitted, and the site
\* serves one and the same page at every read
InitParser ==
    /\ AppIdle
    /\ pc = "poll"
    /\ site \in {FixedSite(page) : page \in FragmentPages}
    /\ acts = <<>>
    /\ total_searches = 2
    /\ config = [get_config(config_name) EXCEPT !.locations = total_searches]
    /\ current_search = 1
    /\ progress = ProgressLine(1, 2)
    /\ driver = "open"
    /\ unique_stores = <<>>
    /\ popup_closed = FALSE
    /\ controls = NoControls
    /\ attempt = 0
    /\ stores = <<>>
    /\ idx = 1
    /\ files = NoFiles
    /\ failStage = "none"
    /\ before = <<>>
    /\ found = <<>>
    /\ polls = 0
    /\ nudges = 0
    /\ tried = <<>>
    /\ expected = <<>>

\* lines 137-193: from the first poll attempt to the end of the location's
\* try block
NextParser ==
    \/ PollParse
    \/ PollNudge
    \/ ParseResults
    \/ ExtractStore
    \/ ExtractDone
    \/ ExceptContinue

SpecParser == InitParser /\ [][NextParser]_vars

\* ------------------------------------------------------------------ app.py
\* the web application: request handlers, each in a thread of the server, and
\* the campaign workers they start

\* Python's s[-n:]
LastN(s, n) == IF Len(s) <= n THEN s ELSE SubSeq(s, Len(s) - n + 1, Len(s))

\* the worker moves to position p
Goto(w, p) == threads' = [threads EXCEPT ![w].pc = p]

\* the worker calls log_message and goes on at position p when the call returns
CallLog(w, p) == threads' = [threads EXCEPT ![w].pc = "log_append", ![w].then = p]

\* the positions of a worker that is inside log_message
InLog == {"log_append", "log_slice", "log_assign"}

\* the positions of a worker that executes send_campaign_emails
Executing(w) == threads[w].pc \notin {"none", "done"}

\* line 336: the handler tests the flag; lines 337, 355-356: it answers
\* 'Campaign already running' or 'CSV file not found', or goes on. The requests
\* are numbered in the order in which their handlers begin.
StartCheck(r) ==
    /\ requests[r] = "idle"
    /\ r > 1 => requests[r - 1] # "idle"
    /\ IF campaign_status.running
       THEN requests' = [requests EXCEPT ![r] = "rejected"]
       ELSE \E exists \in BOOLEAN :
               requests' = [requests EXCEPT ![r] = IF exists THEN "checked" ELSE "notfound"]
    /\ UNCHANGED <<scraper, campaign_status, threads, sender_password, stops, logged>>

\* lines 373-380: the handler creates the worker, starts it and returns
\* 'Campaign started'; the templates of the request format (every placeholder
\* is one of the three names) or not
StartThread(r) ==
    /\ requests[r] = "checked"
    /\ \E ok \in BOOLEAN :
          threads' = [threads EXCEPT ![r] = [NoThread EXCEPT !.pc = "read_csv",
                                                             !.template_ok = ok]]
    /\ requests' = [requests EXCEPT ![r] = "returned"]
    /\ UNCHANGED <<scraper, campaign_status, sender_password, stops, logged>>

\* lines 382-386: stop_campaign clears the flag. History: the workers whose
\* start request has returned and that have not ended see this stop.
StopCampaign ==
    /\ stops < MaxStops
    /\ stops' = stops + 1
    /\ campaign_status' = [campaign_status EXCEPT !.running = FALSE]
    /\ threads' = [w \in Starts |->
                     IF requests[w] = "returned" /\ Executing(w)
                     THEN [threads[w] EXCEPT !.stopSeen = TRUE]
                     ELSE threads[w]]
    /\ UNCHANGED <<scraper, requests, sender_password, logged>>

\* lines 144-148: the worker reads the contacts; lines 243-244: a failure is
\* logged
ReadCsv(w) ==
    /\ threads[w].pc = "read_csv"
    /\ \/ \E n \in 1..MaxContacts :
             threads' = [threads EXCEPT ![w].contacts = n, ![w].pc = "set_total"]
       \/ CallLog(w, "finally")
    /\ UNCHANGED <<web, campaign_status, logged>>

\* line 150
SetTotal(w) ==
    /\ threads[w].pc = "set_total"
    /\ campaign_status' = [campaign_status EXCEPT !.total = threads[w].contacts]
    /\ Goto(w, "set_sent")
    /\ UNCHANGED <<web, logged>>

\* line 151
SetSent(w) ==
    /\ threads[w].pc = "set_sent"
    /\ campaign_status' = [campaign_status EXCEPT !.sent = 0]
    /\ Goto(w, "set_failed")
    /\ UNCHANGED <<web, logged>>

\* line 152
SetFailed(w) ==
    /\ threads[w].pc = "set_failed"
    /\ campaign_status' = [campaign_status EXCEPT !.failed = 0]
    /\ Goto(w, "set_running")
    /\ UNCHANGED <<web, logged>>

\* lines 153-155: the flag is set, then the start of the campaign is logged
\* (the request names no attachment, image or document)
SetRunning(w) ==
    /\ threads[w].pc = "set_running"
    /\ campaign_status' = [campaign_status EXCEPT !.running = TRUE]
    /\ CallLog(w, "credentials")
    /\ UNCHANGED <<web, logged>>

\* lines 164-168, 173: without a password the worker logs an error, with one
\* it enters the contact loop
Credentials(w) ==
    /\ threads[w].pc = "credentials"
    /\ IF sender_password
       THEN threads' = [threads EXCEPT ![w].pc = "loop", ![w].i = 1]
       ELSE CallLog(w, "no_password")
    /\ UNCHANGED <<web, campaign_status, logged>>

\* lines 169-170
NoPassword(w) ==
    /\ threads[w].pc = "no_password"
    /\ campaign_status' = [campaign_status EXCEPT !.running = FALSE]
    /\ Goto(w, "finally")
    /\ UNCHANGED <<web, logged>>

\* lines 173-176: the loop ends after the last contact, or when the flag is
\* found cleared (logged, then break)
LoopTest(w) ==
    /\ threads[w].pc = "loop"
    /\ IF threads[w].i > threads[w].contacts
       THEN Goto(w, "after_loop")
       ELSE IF ~campaign_status.running
            THEN CallLog(w, "after_loop")
            ELSE threads' = [threads EXCEPT
                               ![w].pc = "format",
                               ![w].late = IF threads[w].stopSeen THEN @ + 1 ELSE @]
    /\ UNCHANGED <<web, campaign_status, logged>>

\* lines 183-196, 223: the templates format and the sending is logged, or the
\* KeyError is logged
Format(w) ==
    /\ threads[w].pc = "format"
    /\ IF threads[w].template_ok THEN CallLog(w, "send") ELSE CallLog(w, "count_bad")
    /\ UNCHANGED <<web, campaign_status, logged>>

\* lines 197-198: failed += 1; continue
CountBad(w) ==
    /\ threads[w].pc = "count_bad"
    /\ campaign_status' = [campaign_status EXCEPT !.failed = @ + 1]
    /\ threads' = [threads EXCEPT ![w].pc = "loop", ![w].i = @ + 1]
    /\ UNCHANGED <<web, logged>>

\* line 228: send_email_smtp returns True or False
Send(w) ==
    /\ threads[w].pc = "send"
    /\ \E success \in BOOLEAN :
          Goto(w, IF success THEN "count_sent" ELSE "count_failed")
    /\ UNCHANGED <<web, campaign_status, logged>>

\* lines 231-232
CountSent(w) ==
    /\ threads[w].pc = "count_sent"
    /\ campaign_status' = [campaign_status EXCEPT !.sent = @ + 1]
    /\ CallLog(w, "next")
    /\ UNCHANGED <<web, logged>>

\* lines 234-235
CountFailed(w) ==
    /\ threads[w].pc = "count_failed"
    /\ campaign_status' = [campaign_status EXCEPT !.failed = @ + 1]
    /\ CallLog(w, "next")
    /\ UNCHANGED <<web, logged>>

\* lines 238-239, 173: after the delay the loop takes the next contact
NextContact(w) ==
    /\ threads[w].pc = "next"
    /\ threads' = [threads EXCEPT ![w].pc = "loop", ![w].i = @ + 1]
    /\ UNCHANGED <<web, campaign_status, logged>>

\* line 241
AfterLoop(w) ==
    /\ threads[w].pc = "after_loop"
    /\ CallLog(w, "finally")
    /\ UNCHANGED <<web, campaign_status, logged>>

\* lines 245-246
Finally(w) ==
    /\ threads[w].pc = "finally"
    /\ campaign_status' = [campaign_status EXCEPT !.running = FALSE]
    /\ Goto(w, "done")
    /\ UNCHANGED <<web, logged>>

\* lines 130-136: log_message appends the message and tests the length;
\* without trimming the call returns. The messages are numbered in the order
\* in which they are appended.
LogAppend(w) ==
    /\ threads[w].pc = "log_append"
    /\ logged' = logged + 1
    /\ campaign_status' = [campaign_status EXCEPT !.logs = Append(@, logged + 1)]
    /\ IF Len(campaign_status'.logs) > LogLimit
       THEN Goto(w, "log_slice")
       ELSE threads' = [threads EXCEPT ![w].pc = threads[w].then, ![w].then = "none"]
    /\ UNCHANGED web

\* line 137, right-hand side: the slice is a new list
LogSlice(w) ==
    /\ threads[w].pc = "log_slice"
    /\ threads' = [threads EXCEPT ![w].pc = "log_assign",
                                  ![w].tmp = LastN(campaign_status.logs, LogLimit)]
    /\ UNCHANGED <<web, campaign_status, logged>>

\* line 137, assignment: the new list replaces the buffer, and the call returns
LogAssign(w) ==
    /\ threads[w].pc = "log_assign"
    /\ campaign_status' = [campaign_status EXCEPT !.logs = threads[w].tmp]
    /\ threads' = [threads EXCEPT ![w].pc = threads[w].then, ![w].then = "none",
                                  ![w].tmp = <<>>]
    /\ UNCHANGED <<web, logged>>

\* the messages 1..n in the order logged
Messages(n) == [k \in 1..n |-> k]

\* the application has run campaigns on files without contacts, which left
\* their messages in the buffer and the counters at 0; the password is set in
\* the environment or not
InitApp ==
    /\ ScraperIdle
    /\ logged = EarlierLogs
    /\ campaign_status = [NoCampaign EXCEPT !.logs = Messages(logged)]
    /\ threads = [w \in Starts |-> NoThread]
    /\ requests = [r \in Starts |-> "idle"]
    /\ sender_password \in BOOLEAN
    /\ stops = 0

NextApp ==
    \/ \E r \in Starts : StartCheck(r)
    \/ \E r \in Starts : StartThread(r)
    \/ StopCampaign
    \/ \E w \in Starts : ReadCsv(w)
    \/ \E w \in Starts : SetTotal(w)
    \/ \E w \in Starts : SetSent(w)
    \/ \E w \in Starts : SetFailed(w)
    \/ \E w \in Starts : SetRunning(w)
    \/ \E w \in Starts : Credentials(w)
    \/ \E w \in Starts : NoPassword(w)
    \/ \E w \in Starts : LoopTest(w)
    \/ \E w \in Starts : Format(w)
    \/ \E w \in Starts : CountBad(w)
    \/ \E w \in Starts : Send(w)
    \/ \E w \in Starts : CountSent(w)
    \/ \E w \in Starts : CountFailed(w)
    \/ \E w \in Starts : NextContact(w)
    \/ \E w \in Starts : AfterLoop(w)
    \/ \E w \in Starts : Finally(w)
    \/ \E w \in Starts : LogAppend(w)
    \/ \E w \in Starts : LogSlice(w)
    \/ \E w \in Starts : LogAssign(w)

SpecApp == InitApp /\ [][NextApp]_vars


\* ------------------------------------------------------------------ claims
ConfigStages == {"search_input", "search_btn", "js_click"}

\* C1: the Record Store never holds two entries with the same store_id.
C1_NoDuplicateStoreId ==
    \A i, j \in 1..Len(unique_stores) :
        unique_stores[i].key = unique_stores[j].key => i = j

\* C1 witness: a listing whose id was already stored has been offered, and the store holds
\* several records
C1_Witness ==
    /\ pc = "extract"
    /\ idx > 1
    /\ stores[idx - 1].sid \in Keys(before)
    /\ Len(unique_stores) >= 3

\* C2: an extraction step on a listing whose store_id is already stored leaves
\* every stored record and the size of the store as they were.
C2_FirstSeenWins ==
    [][(/\ pc = "extract"
        /\ idx <= Len(stores)
        /\ stores[idx].sid \in Keys(unique_stores))
       => /\ Len(unique_stores') = Len(unique_stores)
          /\ \A k \in Keys(unique_stores) :
                /\ k \in Keys(unique_stores')
                /\ Get(unique_stores', k) = Get(unique_stores, k)]_vars

\* C2 witness: the sparse record of store 2 is stored and the more complete one was offered
C2_Witness ==
    /\ pc = "extract"
    /\ idx > 1
    /\ stores[idx - 1] = Listing2A
    /\ "2" \in Keys(unique_stores)
    /\ Get(unique_stores, "2") = ParseRow(Listing2B)
    /\ ParseRow(Listing2B) # ParseRow(Listing2A)

\* C3: after a complete run the Record Store is the first-seen merge, in
\* configured order, of the listings of the locations processed without failure.
C3_FinalStoreIsMergeOfSuccessfulLocations ==
    pc = "done" =>
        /\ Keys(unique_stores) = Keys(expected)
        /\ \A k \in Keys(expected) : Get(unique_stores, k) = Get(expected, k)

\* C4: no exception other than a session-creation failure leaves the run.
C4_OnlySessionFailureEscapes ==
    pc = "escaped" => failStage = "session"

\* C5: an exception at the location input or at the search control is caught,
\* the location adds nothing to the Record Store, and the run goes on with the
\* next configured location (the final save after the last one).
C5_ConfigFailureSkipsLocation ==
    /\ [](failStage \in ConfigStages =>
              /\ pc # "escaped"
              /\ unique_stores = before)
    /\ [][(failStage \in ConfigStages /\ pc = "except") => pc' = "for"]_vars
    /\ [][(failStage \in ConfigStages /\ pc = "for") =>
              IF current_search < total_searches
              THEN pc' = "get" /\ current_search' = current_search + 1
              ELSE pc' = "final_save"]_vars

\* C5 witness: the location before this one failed at the location input, with records stored
C5_Witness ==
    /\ pc = "get"
    /\ failStage = "search_input"
    /\ current_search >= 2
    /\ unique_stores # <<>>

\* C6: a location that ends in a per-location failure leaves the Record Store
\* as it was when the location began.
C6_FailedLocationAddsNothing ==
    (pc = "for" /\ failStage # "none") => unique_stores = before

\* C7, first part: the poll loop goes on until an attempt finds listings or the
\* attempts are used up, and makes no attempt after the one that found listings.
C7_LoopStopsAtFirstListings ==
    /\ pc = "parse_results" => (found # <<>> \/ polls = max_attempts)
    /\ found # <<>> => polls = attempt + 1

\* C7, whole claim: the loop stops at the first attempt that finds listings, and
\* extraction works on those listings.
C7_PollReturnsFoundListings ==
    /\ C7_LoopStopsAtFirstListings
    /\ (pc = "extract" /\ found # <<>>) => stores = found

\* C8: when all the poll attempts found nothing, the loop ends without an
\* exception and the location adds no record to the Record Store.
C8_ExhaustedPollAddsNothing ==
    (polls = max_attempts /\ found = <<>> /\ pc \notin {"poll", "nudge"}) =>
        /\ pc = "parse_results" => failStage = "none"
        /\ unique_stores = before

\* C9: at most max_attempts poll attempts and max_attempts - 1 nudges per
\* location; a nudge follows only an attempt that found nothing and was not the
\* last, and whatever the nudge does, the next poll attempt follows it.
C9_BoundedPollAndNudge ==
    /\ [](/\ polls <= max_attempts
          /\ nudges <= max_attempts - 1
          /\ nudges <= polls
          /\ found # <<>> => nudges <= polls - 1)
    /\ [][nudges' > nudges =>
              /\ pc = "nudge"
              /\ stores = <<>>
              /\ found = <<>>
              /\ polls < max_attempts
              /\ pc' = "poll"]_vars
    /\ [][pc = "nudge" => pc' \in {"poll", "parse_results"}]_vars

\* C9 witness: every attempt of a location found nothing and each but the last was nudged
C9_Witness ==
    /\ pc = "parse_results"
    /\ polls = max_attempts
    /\ nudges = max_attempts - 1
    /\ found = <<>>

\* C10: once location k, a multiple of 10, has been processed, its intermediate
\* file exists, and no intermediate file exists for any other index.
C10_CheckpointAtEveryTenth ==
    /\ (pc = "for" /\ current_search > 0 /\ current_search % CheckpointEvery = 0)
           => FileAt(files, IntermediateFile(current_search)) # <<>>
    /\ \A k \in 1..MaxLocations :
           FileAt(files, IntermediateFile(k)) # <<>> =>
               (k % CheckpointEvery = 0 /\ k <= current_search)

\* C11: a run that gets past its last location writes the final file once,
\* after the last location and not before, whether or not that location failed
\* and whatever intermediate files were written.
C11_FinalFlushOnceAfterLastLocation ==
    /\ [](pc = "final_save" => current_search = total_searches)
    /\ [](pc \in {"quit", "done"} =>
              FileAt(files, FinalFile) = CsvRows(unique_stores))
    /\ [](pc \notin {"quit", "done"} => FileAt(files, FinalFile) = <<>>)
    /\ [][FileAt(files', FinalFile) # FileAt(files, FinalFile) =>
              (pc = "final_save" /\ pc' = "quit")]_vars
    /\ [][pc = "for" /\ current_search = total_searches => pc' = "final_save"]_vars
    /\ [][(pc \in {"quit", "done"}) => pc' = "done"]_vars

\* C11 witness: the last location failed after an intermediate file was written,
\* and the final file is there
C11_Witness ==
    /\ pc = "done"
    /\ failStage \in ConfigStages
    /\ FileAt(files, IntermediateFile(CheckpointEvery)) # <<>>
    /\ Len(FileAt(files, FinalFile)) > 1

\* C14: the Obstruction Handler never raises to its caller.
C14_ObstructionHandlerNeverRaises ==
    failStage # "obstruction"

\* C17: the forced activation of the search control follows a direct activation
\* that raised and nothing else; a direct activation that returns goes on to the
\* polling, and a forced activation that raises ends the location in a
\* per-location failure.
C17_ForcedClickIffDirectClickRaised ==
    /\ [][pc = "click" => pc' \in {"poll", "js_click"}]_vars
    /\ [][pc' = "js_click" => pc = "click"]_vars
    /\ [][pc = "js_click" =>
              \/ pc' = "poll" /\ failStage' = failStage
              \/ pc' = "except" /\ failStage' = "js_click"]_vars
    /\ [][pc' = "poll" /\ pc \notin {"poll", "nudge"} =>
              pc \in {"click", "js_click"}]_vars
    /\ [](failStage = "js_click" => pc \in {"except", "for", "get", "final_save",
                                           "quit", "done"})

\* C17 witness: the direct and the forced activation both raised and the run
\* went on with the next location
C17_Witness ==
    /\ pc = "get"
    /\ failStage = "js_click"
    /\ current_search >= 2

\* C12: the names of the intermediate files differ from one another and from
\* the name of the final file, and an intermediate file, once written, is never
\* changed again, not by a later intermediate save and not by the final save.
C12_IntermediateFilesKept ==
    /\ [](pc = "final_save" =>
              \A j, k \in 1..LongLocations :
                  /\ j # k => IntermediateFile(j) # IntermediateFile(k)
                  /\ IntermediateFile(k) # FinalFile)
    /\ [][\A f \in DOMAIN files \ {FinalFile} :
              f \in DOMAIN files' /\ files'[f] = files[f]]_vars

\* C12 witness: the run is over, two intermediate files and the final file are
\* there, and the three hold different snapshots
C12_Witness ==
    /\ pc = "done"
    /\ FileAt(files, IntermediateFile(CheckpointEvery)) # <<>>
    /\ FileAt(files, IntermediateFile(2 * CheckpointEvery)) # <<>>
    /\ FileAt(files, IntermediateFile(CheckpointEvery)) #
           FileAt(files, IntermediateFile(2 * CheckpointEvery))
    /\ FileAt(files, FinalFile) #
           FileAt(files, IntermediateFile(2 * CheckpointEvery))

\* the file holds the header row, then the rows of the store in insertion order
HoldsStore(file, d) ==
    /\ Len(file) = Len(d) + 1
    /\ file[1] = HeaderRow
    /\ \A i \in 1..Len(d) : file[i + 1] = d[i].row

\* C13: a save, intermediate or final, leaves at its path the header row followed
\* by one row per record of the store, in insertion order, and nothing of the
\* file that was there before.
C13_FlushWritesHeaderAndStoreRows ==
    /\ [][\A f \in DOMAIN files' :
              FileAt(files', f) # FileAt(files, f) =>
                  HoldsStore(FileAt(files', f), unique_stores)]_vars
    /\ [](pc \in {"quit", "done"} => HoldsStore(FileAt(files, FinalFile), unique_stores))
    /\ []((pc = "for" /\ failStage = "none" /\ current_search > 0
              /\ current_search % CheckpointEvery = 0)
           => HoldsStore(FileAt(files, IntermediateFile(current_search)),
                         unique_stores))

\* C13 witness: an intermediate and the final save have replaced longer files
\* of an earlier run by the rows of a store of several records
C13_Witness ==
    /\ pc = "done"
    /\ Len(unique_stores) >= 2
    /\ FileAt(files, FinalFile) # StaleFile
    /\ FileAt(files, IntermediateFile(CheckpointEvery)) # StaleFile
    /\ Len(FileAt(files, IntermediateFile(CheckpointEvery))) >= 2
    /\ Len(FileAt(files, FinalFile)) < Len(StaleFile)

\* C15: the obstruction handler runs its strategies in the order 1, 2, 3, 4;
\* strategy n+1 runs if and only if strategies 1..n have all failed: every
\* strategy before the last one run has failed, a strategy that failed is
\* followed by the next one, and nothing runs after a strategy that succeeded
C15_StrategiesInOrderUntilSuccess ==
    /\ \A i \in 1..Len(tried) :
          /\ tried[i].n = i
          /\ i < Len(tried) => ~tried[i].ok
    /\ Len(tried) <= 4
    /\ pc = "popup_class" => Len(tried) = 1
    /\ pc = "popup_text" => (Len(tried) = 2 \/ (Len(tried) = 1 /\ tried[1].ok))
    /\ pc = "popup_remove" => (Len(tried) = 3 \/ (Len(tried) < 3 /\ tried[Len(tried)].ok))
    /\ pc = "radius" => (Len(tried) >= 1 /\ tried[Len(tried)].ok)
    /\ (pc \in {"popup_class", "popup_text", "popup_remove", "radius"})
          => popup_closed = (tried[Len(tried)].ok /\ Len(tried) < 4)

C15_Witness ==
    /\ pc = "radius"
    /\ Len(tried) = 3
    /\ ~tried[1].ok /\ ~tried[2].ok /\ tried[3].ok
    /\ current_search >= 2

\* C16: when the radius control or the max-results control cannot be set, a
\* warning is printed and the query goes on: the max-results control is
\* attempted after the radius control whatever became of it, the location
\* text is typed after the max-results control whatever became of it, and no
\* location is abandoned because of these two controls
C16_ControlFailureDoesNotAbort ==
    /\ [][pc = "radius" => pc' = "max_results"]_vars
    /\ [][pc = "max_results" => pc' = "search_input"]_vars
    /\ [](pc = "max_results" => controls.radius # "unset")
    /\ [](pc = "search_input" => controls.radius # "unset" /\ controls.results # "unset")
    /\ [](failStage \notin {"radius", "max_results"})
    /\ [][(pc' = "except" /\ pc # "except") =>
              pc \in {"search_input", "search_btn", "js_click", "poll", "nudge",
                      "parse_results", "extract"}]_vars

C16_Witness ==
    /\ pc = "click"
    /\ current_search >= 2
    /\ controls = [radius |-> "warned", results |-> "warned"]

\* C18: a value that the widget silently rejected is detected before the
\* search is submitted: the controller never comes to click the search
\* control while the radius control or the max-results control is in the
\* state of a silent rejection
C18_RejectedValueDetectedBeforeSubmit ==
    pc = "click" =>
        (controls.radius # "rejected" /\ controls.results # "rejected")

\* the text a sub-element of the fragments holds, blanks stripped
PartValue(part) ==
    CASE part = "title" -> <<"Shop", WS, "Nine">>
      [] part = "street" -> <<"9 Main">>
      [] part = "city" -> <<"Town Z">>
      [] part = "country" -> <<"US">>
      [] part = "phone" -> <<"555-9">>
      [] part = "email" -> <<"nine@x">>
      [] part = "directions" -> <<"5 mi">>
      [] part = "href" -> <<"url9">>

\* the record the contract states for the fragment of S: every field is the
\* value of its sub-element if the sub-element is there, and empty if not
FieldOf(S, part, needs) ==
    IF part \in S /\ needs \subseteq S THEN PartValue(part) ELSE <<>>

ContractRow(S) ==
    <<FieldOf(S, "title", {}), FieldOf(S, "street", {}), FieldOf(S, "city", {}),
      FieldOf(S, "country", {}), FieldOf(S, "phone", {"contact"}),
      FieldOf(S, "email", {"contact"}), FieldOf(S, "directions", {}),
      FieldOf(S, "href", {"directions", "anchor"})>>

\* C19: for a listing element with the store-identifier attribute and any
\* subset of its sub-elements missing, the parser raises no exception and
\* stores the record in which every missing field is empty and every present
\* field has its value
C19_MissingPartsNeverRaiseAndDefaultEmpty ==
    \A S \in SUBSET Parts :
        site = FixedSite(<<FragmentLi(TRUE, S)>>) =>
            /\ failStage # "extraction"
            /\ pc = "checkpoint" => unique_stores = <<Entry("9", ContractRow(S))>>

\* C20: a listing element without the store-identifier attribute is no
\* candidate: it is in no result of find_all, so the poll loop does not count
\* it as a found listing, and it puts no record into the store
C20_ListingWithoutIdIsNoCandidate ==
    /\ \A i \in 1..Len(stores) : stores[i].has_id
    /\ \A i \in 1..Len(found) : found[i].has_id
    /\ "None" \notin Keys(unique_stores)
    /\ \A page \in PageSource(site) :
          /\ Len(stores) <= Cardinality({i \in 1..Len(page) : page[i].has_id})
          /\ Len(unique_stores) <= Cardinality({i \in 1..Len(page) : page[i].has_id})
          /\ (\A i \in 1..Len(page) : ~page[i].has_id) =>
                /\ found = <<>>
                /\ pc \in {"parse_results", "extract", "checkpoint"} => polls = max_attempts

C20_Witness ==
    /\ pc = "checkpoint"
    /\ site = FixedSite(<<FragmentLi(FALSE, Parts)>>)
    /\ polls = max_attempts
    /\ nudges = max_attempts - 1
    /\ found = <<>>
    /\ unique_stores = <<>>

\* C21: the locations are started one at a time in configured order, and each
\* configured location is started once, also after a location has failed: the
\* number of locations started never passes the number configured, the loop is
\* left only when all of them have been started, and a run that ends on a
\* failure of a location has started them all
C21_EveryLocationStartedOnceInOrder ==
    /\ current_search <= total_searches
    /\ pc \notin {"start", "for", "final_save", "quit", "done", "escaped"}
          => current_search >= 1
    /\ pc \in {"final_save", "quit", "done"} => current_search = total_searches
    /\ (pc = "escaped" /\ failStage # "session") => current_search = total_searches

\* the stage of the Campaign Driver a position of main() belongs to: 1
\* Navigating, 2 DismissingObstruction, 3 Configuring, 4 Polling, 5 Extracting
\* and Merging (line 189 merges each listing in the iteration that extracts
\* it), 6 merged; 0 outside the processing of a location
Stage(p) ==
    CASE p = "get" -> 1
      [] p \in {"popup_id", "popup_class", "popup_text", "popup_remove"} -> 2
      [] p \in {"radius", "max_results", "search_input", "search_btn", "click",
                "js_click"} -> 3
      [] p \in {"poll", "nudge"} -> 4
      [] p \in {"parse_results", "extract"} -> 5
      [] p = "checkpoint" -> 6
      [] OTHER -> 0

C23_RunTerminates == <>(pc \in {"done", "escaped"})

\* C23 witness: a run has ended although the widget never showed a listing at
\* its last location
C23_Witness ==
    /\ pc = "done"
    /\ total_searches >= 2
    /\ polls = max_attempts
    /\ nudges = max_attempts - 1
    /\ found = <<>>

\* C24: when a location has been processed, the last progress report carries
\* the index of that location, the total, the location and the number of
\* records the Record Store holds after that location
C24_ProgressReportAfterEachLocation ==
    (pc = "for" /\ current_search >= 1) =>
        /\ progress.index = current_search
        /\ progress.total = total_searches
        /\ progress.location = current_search
        /\ "count" \in DOMAIN progress
        /\ progress.count = Len(unique_stores)

\* C25: when the browser session cannot be created, the exception leaves
\* main() at once and the run is over: no location is started or navigated
\* to, no progress line is printed and no file is written
C25_SessionFailureAbortsRun ==
    /\ [][(pc = "start" /\ driver' # "open") =>
              (pc' = "escaped" /\ failStage' = "session")]_vars
    /\ [](failStage = "session" =>
              /\ pc = "escaped"
              /\ driver = "none"
              /\ current_search = 0
              /\ progress = NoProgress
              /\ unique_stores = <<>>
              /\ DOMAIN files = {})
    /\ [][pc = "escaped" => FALSE]_vars

C25_Witness ==
    /\ pc = "escaped"
    /\ failStage = "session"
    /\ total_searches >= 2

\* C26: a record, once inserted, is never changed and never deleted: the
\* records the store held when the location began are still there, unchanged
\* and in their places, and a location that fails or shows no result leaves
\* the store as it was
C26_RecordsNeverChangeOrVanish ==
    /\ Len(before) <= Len(unique_stores)
    /\ \A i \in 1..Len(before) : unique_stores[i] = before[i]
    /\ pc = "except" => unique_stores = before
    /\ (pc = "checkpoint" /\ stores = <<>>) => unique_stores = before

\* C27: every key of the Record Store is a non-empty store_id
C27_NoEmptyStoreId ==
    \A i \in 1..Len(unique_stores) : unique_stores[i].key # ""

\* C28: flushing the store twice to a path, with no insert in between, leaves
\* the file that flushing once leaves, and a later flush to a path supersedes
\* an earlier flush to it: after the flush the file holds the store of the
\* later flush, whatever the path held before
C28_FlushIdempotentAndSuperseding ==
    /\ \A name \in {FinalFile, IntermediateFile(CheckpointEvery)} :
          LET once == SaveStore(files, name, unique_stores)
              twice == SaveStore(once, name, unique_stores)
              earlier == SaveStore(files, name, before)
              later == SaveStore(earlier, name, unique_stores)
          IN /\ twice = once
             /\ later = once
             /\ FileAt(later, name) = CsvRows(unique_stores)
             /\ \A f \in DOMAIN files \ {name} : FileAt(later, f) = files[f]
    /\ pc \in {"quit", "done"} => FileAt(files, FinalFile) = CsvRows(unique_stores)

\* C28 witness: the final flush has superseded the file of an earlier run, and
\* the store of the last intermediate flush was another one
C28_Witness ==
    /\ pc = "done"
    /\ StaleFile # CsvRows(unique_stores)
    /\ FileAt(files, FinalFile) = CsvRows(unique_stores)
    /\ before # unique_stores
    /\ before # <<>>

\* C29: when a poll attempt found listings, the records merged for the
\* location are the records of the listings that attempt found
C29_MergedRecordsAreTheFoundListings ==
    (pc = "checkpoint" /\ found # <<>>) =>
        unique_stores = FirstSeenMerge(before, found)

\* the data rows of a file, and the prefix order on sequences
DataRows(file) == IF file = <<>> THEN <<>> ELSE Tail(file)

IsPrefix(a, b) == Len(a) <= Len(b) /\ \A i \in 1..Len(a) : a[i] = b[i]

\* C30: within one run the data rows of every intermediate file are a prefix
\* of the data rows of every later intermediate file and of the final file
\* (and of the rows of the store, from which every later file is written)
C30_SnapshotsArePrefixes ==
    \A f \in DOMAIN files :
        /\ IsPrefix(DataRows(files[f]), DataRows(CsvRows(unique_stores)))
        /\ \A g \in DOMAIN files :
              (f # FinalFile /\ (g = FinalFile \/ f[4] < g[4]))
                  => IsPrefix(DataRows(files[f]), DataRows(files[g]))

\* C30 witness: two intermediate files and the final file, each with more
\* rows than the one before
C30_Witness ==
    /\ pc = "done"
    /\ 0 < Len(DataRows(FileAt(files, IntermediateFile(CheckpointEvery))))
    /\ Len(FileAt(files, IntermediateFile(CheckpointEvery)))
          < Len(FileAt(files, IntermediateFile(2 * CheckpointEvery)))
    /\ Len(FileAt(files, IntermediateFile(2 * CheckpointEvery)))
          < Len(FileAt(files, FinalFile))

\* C31: once the session has been created it is closed on every path on which
\* the run ends, by normal completion or by an exception that leaves main();
\* it is closed only after the final flush, and nothing is done with the
\* browser after it is closed
C31_SessionClosedOnEveryEnd ==
    /\ pc = "done" => driver = "quit"
    /\ (pc = "escaped" /\ failStage # "session") => driver = "quit"
    /\ driver = "quit" => (pc = "done" /\ FinalFile \in DOMAIN files)

\* the place of an act on the controls in the order of a query
ActRank(a) ==
    CASE a = "radius_value" -> 1
      [] a = "radius_change" -> 2
      [] a = "results_value" -> 3
      [] a = "results_change" -> 4

ActsOf(s) == {s[i] : i \in 1..Len(s)}

\* C32: within one query the controller assigns the radius, emits its change
\* event, assigns the max-results value, emits its change event, types the
\* location and activates the search control, in this order: a change event
\* comes only after the assignment of its control, the location is typed only
\* when the two controls have had their turn, and the search control is
\* activated only after the location has been typed
C32_QueryActsInOrder ==
    /\ [](\A i, j \in 1..Len(acts) : i < j => ActRank(acts[i]) < ActRank(acts[j]))
    /\ []("radius_change" \in ActsOf(acts) => "radius_value" \in ActsOf(acts))
    /\ []("results_change" \in ActsOf(acts) => "results_value" \in ActsOf(acts))
    /\ [](pc = "radius_change" => acts = <<"radius_value">>)
    /\ [](pc = "max_results" => ActsOf(acts) \subseteq {"radius_value", "radius_change"})
    /\ [](pc = "max_results_change" => acts[Len(acts)] = "results_value")
    /\ [][pc' = "radius_change" => pc = "radius"]_vars
    /\ [][pc' = "max_results" => pc \in {"radius", "radius_change"}]_vars
    /\ [][pc' = "max_results_change" => pc = "max_results"]_vars
    /\ [][pc' = "search_input" => pc \in {"max_results", "max_results_change"}]_vars
    /\ [][pc' = "search_btn" => pc = "search_input"]_vars
    /\ [][pc' = "click" => pc = "search_btn"]_vars
    /\ [][pc' = "js_click" => pc = "click"]_vars

C32_Witness ==
    /\ pc = "click"
    /\ acts = <<"radius_value", "radius_change", "results_value", "results_change">>
    /\ current_search = QueryLocations

\* the field the contract states for a label: the remainder of a line of the
\* contact block that begins with the label and a colon, empty when no line
\* begins so
FieldByLabel(field, contact, label) ==
    LET lines == IF contact.present THEN contact.spans ELSE <<>>
        labelled == {k \in 1..Len(lines) : OccursAt(lines[k], <<label, ":">>, 1)}
    IN IF labelled = {} THEN field = <<>>
       ELSE \E k \in labelled : field = Strip(SubSeq(lines[k], 3, Len(lines[k])))

\* C33: the phone field (the email field) of a stored record is the remainder
\* of a line of the contact block that begins with "Phone:" ("Email:"), and
\* it is empty when no line begins with that label
C33_LabelPrefixDecidesField ==
    pc = "checkpoint" =>
        \A page \in PageSource(site) : \A i \in 1..Len(page) :
            (page[i].has_id /\ page[i].sid \in Keys(unique_stores)) =>
                LET row == Get(unique_stores, page[i].sid)
                IN /\ FieldByLabel(row[5], page[i].contact, "Phone")
                   /\ FieldByLabel(row[6], page[i].contact, "Email")

\* C34: the radius and the max-results value of every configuration the
\* driver can build its queries from are accepted options: this holds for
\* every name of the catalog, for any other name and for no name at all
C34_ConfigValuesAreAcceptedOptions ==
    /\ pc # "argv" =>
          /\ config.search_radius \in SEARCH_RADIUS_OPTIONS
          /\ config.max_results \in MAX_RESULTS_OPTIONS
    /\ \A argv \in Argvs :
          LET c == get_config(IF Len(argv) > 0 THEN argv[1] ELSE "major_cities")
          IN /\ c.search_radius \in SEARCH_RADIUS_OPTIONS
             /\ c.max_results \in MAX_RESULTS_OPTIONS

\* C34 witness: the controls of the first query of the largest radius have
\* been set
C34_Witness ==
    /\ pc = "search_input"
    /\ config = HIGH_POPULATION_CONFIG
    /\ total_searches = HIGH_POPULATION_CONFIG.locations
    /\ controls.radius = "applied"

\* C35: at most one campaign worker executes send_campaign_emails at any time;
\* a start request that arrives while a started campaign has not finished
\* starts no second worker.
C35_AtMostOneCampaignWorker ==
    Cardinality({w \in Starts : Executing(w)}) <= 1

\* the only worker that has been created
OnlyWorker(w) == \A v \in Starts \ {w} : threads[v].pc = "none"

\* C36: once a stop request has been served after the start request returned,
\* the worker leaves the loop at its next test of the flag: the test lets no
\* further contact through (an email already past the test is the one in
\* flight). Stated for a session with one worker.
C36_StopEndsTheLoop ==
    \A w \in Starts : OnlyWorker(w) => threads[w].late = 0

\* C37: sent + failed never exceeds total, and when a worker has run the
\* contact loop to its end sent + failed equals total.
C37_CountersWithinTotal ==
    /\ campaign_status.sent + campaign_status.failed <= campaign_status.total
    /\ \A w \in Starts :
          threads[w].pc = "after_loop" /\ threads[w].i > threads[w].contacts
             => campaign_status.sent + campaign_status.failed = campaign_status.total

\* C38: when no log_message call is in progress, the buffer holds the last 50
\* of the messages logged, in the order in which they were logged.
C38_BufferHoldsLastMessages ==
    (\A w \in Starts : threads[w].pc \notin InLog)
       => campaign_status.logs = LastN(Messages(logged), LogLimit)

====
